---- MODULE Spec2Model ----
(***************************************************************************)
(* Model of atcoder-problems-sql-common/src/sql/updater.rs: the seven      *)
(* SqlUpdater operations of PgConnection.  Every operation is one          *)
(* batch_execute of DELETE + INSERT ... SELECT statements; the queries are *)
(* modelled by operators over the tables they read, the tables by the      *)
(* variables below.                                                        *)
(*                                                                         *)
(* Strings that the queries inspect character by character (user_id,       *)
(* language) are sequences of one-character strings.  A nullable column    *)
(* holds <<>> for NULL and <<v>> for the value v.                          *)
(***************************************************************************)
EXTENDS Integers, Sequences, FiniteSets, Bags

VARIABLES
    submissions,                \* table submissions: sequence of rows, id = index
    contests,                   \* table contests: set of rows, id unique
    points,                     \* table points: bag of rows
    points_pk,                  \* schema: does points carry a unique key on problem_id
    accepted_count,
    solver,
    rated_point_sum,
    language_count,
    first,
    fastest,
    shortest,
    first_submission_count,
    shortest_submission_count,
    fastest_submission_count,
    last                        \* the most recent call on the store and its outcome

vars == << submissions, contests, points, points_pk, accepted_count, solver,
           rated_point_sum, language_count, first, fastest, shortest,
           first_submission_count, shortest_submission_count,
           fastest_submission_count, last >>

source == << submissions, contests >>

derived == << accepted_count, solver, rated_point_sum, language_count, first,
              fastest, shortest, first_submission_count,
              shortest_submission_count, fastest_submission_count >>

(***************************************************************************)
(* Bounds of the model.                                                    *)
(***************************************************************************)
MaxSubs == 2                    \* rows the submissions table may hold

MaxCopies == 2                  \* copies of one row the points table may hold

MaxDigits == 2                  \* digits of a language's version suffix

(***************************************************************************)
(* Values.                                                                 *)
(***************************************************************************)
NULL == << >>

Some(v) == << v >>

Cutoff == 1468670400

VjudgePattern == << "v", "j", "u", "d", "g", "e", "_" >>

Perl == << "P", "e", "r", "l" >>

Digit == { "0", "1", "2", "3", "4", "5", "6", "7", "8", "9" }

GreatTables ==
    << << "first", "epoch_second" >>,
       << "fastest", "execution_time" >>,
       << "shortest", "length" >> >>

AggregateTables ==
    << << "first_submission_count", "first" >>,
       << "shortest_submission_count", "shortest" >>,
       << "fastest_submission_count", "fastest" >> >>

(***************************************************************************)
(* Helpers of the queries.                                                 *)
(***************************************************************************)
RECURSIVE SumOver(_, _)
\* SUM(col) over a finite set of rows; col is a field name
SumOver(rows, col) ==
    IF rows = {} THEN 0
    ELSE LET r == CHOOSE x \in rows : TRUE
         IN  r[col] + SumOver(rows \ {r}, col)

MaxOf(S) == CHOOSE m \in S : \A x \in S : x <= m

Accepted(subs) == { i \in DOMAIN subs : subs[i].result = "AC" }

RECURSIVE Like(_, _)
\* SQL  s LIKE pat : "_" matches exactly one character, "%" any run
Like(s, pat) ==
    IF pat = << >> THEN s = << >>
    ELSE IF Head(pat) = "%"
         THEN Like(s, Tail(pat)) \/ (s # << >> /\ Like(Tail(s), pat))
         ELSE /\ s # << >>
              /\ (Head(pat) = "_" \/ Head(pat) = Head(s))
              /\ Like(Tail(s), Tail(pat))

(***************************************************************************)
(* The SELECT of each operation, as a function of the tables it reads.     *)
(***************************************************************************)
\* a variant of AcceptedCountQuery: COUNT(problem_id), the DISTINCT dropped
AcceptedCountQueryAll(subs) ==
    { [ user_id |-> u,
        problem_count |->
            Cardinality({ j \in Accepted(subs) : subs[j].user_id = u }) ] :
      u \in { subs[i].user_id : i \in Accepted(subs) } }

\* SELECT user_id, COUNT(DISTINCT(problem_id)) ... WHERE result = 'AC' GROUP BY user_id
AcceptedCountQuery(subs) ==
    { [ user_id |-> u,
        problem_count |->
            Cardinality({ subs[i].problem_id :
                            i \in { j \in Accepted(subs) : subs[j].user_id = u } }) ] :
      u \in { subs[i].user_id : i \in Accepted(subs) } }

\* SELECT COUNT(DISTINCT(user_id)), problem_id ... WHERE result = 'AC' GROUP BY problem_id
ProblemSolverCountQuery(subs) ==
    { [ user_count |->
            Cardinality({ subs[i].user_id :
                            i \in { j \in Accepted(subs) : subs[j].problem_id = p } }),
        problem_id |-> p ] :
      p \in { subs[i].problem_id : i \in Accepted(subs) } }

\* the WHERE clause of the inner SELECT of update_rated_point_sums
RatedJoin(subs, pts) ==
    { jr \in (DOMAIN subs) \X BagToSet(pts) :
        /\ jr[2].problem_id = subs[jr[1]].problem_id
        /\ subs[jr[1]].result = "AC"
        /\ jr[2].point # NULL
        /\ ~ Like(subs[jr[1]].user_id, VjudgePattern) }

\* a variant of RatedSub: the DISTINCT dropped, one row per joined submission
RatedSubAll(subs, pts) ==
    { [ pair |-> << subs[jr[1]].user_id, subs[jr[1]].problem_id >>,
        point |-> jr[2].point[1],
        user_id |-> subs[jr[1]].user_id,
        id |-> jr[1] ] : jr \in RatedJoin(subs, pts) }

\* the inner SELECT DISTINCT (user_id, problem_id), point, user_id
RatedSub(subs, pts) ==
    { [ pair |-> << subs[jr[1]].user_id, subs[jr[1]].problem_id >>,
        point |-> jr[2].point[1],
        user_id |-> subs[jr[1]].user_id ] : jr \in RatedJoin(subs, pts) }

\* SELECT SUM(point), user_id FROM (...) AS sub GROUP BY user_id
RatedPointSumQuery(subs, pts) ==
    LET sub == RatedSub(subs, pts)
    IN  { [ point_sum |-> SumOver({ r \in sub : r.user_id = u }, "point"),
            user_id |-> u ] : u \in { r.user_id : r \in sub } }

IsDigit(c) == c \in Digit

\* a variant of NotAfterPerl: the lookbehind dropped
NotAfterPerlDropped(s, i) == TRUE

\* the lookbehind (?<!Perl) at position i: the four characters before i are not Perl
NotAfterPerl(s, i) == ~ (i > 4 /\ SubSeq(s, i - 4, i - 1) = Perl)

\* the regex matches at i with k characters taken by the first group:
\* branch (?<!Perl)\d* takes k digits, the empty branch takes none; then " (", .*, ")"
MatchesAt(s, i, k) ==
    /\ i + k + 2 <= Len(s)
    /\ \/ k = 0
       \/ /\ NotAfterPerl(s, i)
          /\ \A j \in i .. (i + k - 1) : IsDigit(s[j])
    /\ s[i + k] = " "
    /\ s[i + k + 1] = "("
    /\ \E j \in (i + k + 2) .. Len(s) : s[j] = ")"

\* regexp_replace(language, '((?<!Perl)\d*|) \(.*\)', ''): the leftmost match, its
\* greedy .* running to the last ")", is removed; without a match s is returned
SimplifiedLanguage(s) ==
    LET starts == { i \in 1 .. Len(s) : \E k \in 0 .. Len(s) : MatchesAt(s, i, k) }
    IN  IF starts = {} THEN s
        ELSE LET i == CHOOSE x \in starts : \A y \in starts : x <= y
                 e == MaxOf({ j \in 1 .. Len(s) : s[j] = ")" })
             IN  SubSeq(s, 1, i - 1) \o SubSeq(s, e + 1, Len(s))

\* SELECT user_id, simplified_language, COUNT(DISTINCT(problem_id)) ...
\* GROUP BY (simplified_language, user_id)
LanguageCountQuery(subs) ==
    LET sub == { [ simplified_language |-> SimplifiedLanguage(subs[i].language),
                   user_id |-> subs[i].user_id,
                   problem_id |-> subs[i].problem_id ] : i \in Accepted(subs) }
    IN  { [ user_id |-> g[2],
            simplified_language |-> g[1],
            problem_count |->
                Cardinality({ r.problem_id :
                                r \in { x \in sub : /\ x.simplified_language = g[1]
                                                    /\ x.user_id = g[2] } }) ] :
          g \in { << r.simplified_language, r.user_id >> : r \in sub } }

\* submissions INNER JOIN contests WHERE result = 'AC' AND epoch_second > start_epoch_second
GreatJoin(subs, cons) ==
    { i \in DOMAIN subs :
        /\ subs[i].result = "AC"
        /\ \E c \in cons : /\ c.id = subs[i].contest_id
                          /\ subs[i].epoch_second > c.start_epoch_second }

\* a variant of OrderedBefore: ties on the column go to the higher id
OrderedBeforeIdDesc(subs, column, i, j) ==
    \/ subs[i][column] < subs[j][column]
    \/ (subs[i][column] = subs[j][column] /\ i > j)

\* ORDER BY submissions.{column} ASC, submissions.id ASC
OrderedBefore(subs, column, i, j) ==
    \/ subs[i][column] < subs[j][column]
    \/ (subs[i][column] = subs[j][column] /\ i < j)

\* ROW_NUMBER() OVER (PARTITION BY problem_id ORDER BY ...)
RowNumber(subs, cons, column, i) ==
    1 + Cardinality({ j \in GreatJoin(subs, cons) :
                        /\ subs[j].problem_id = subs[i].problem_id
                        /\ OrderedBefore(subs, column, j, i) })

\* SELECT id, problem_id, contest_id FROM (...) AS a WHERE ordering = 1
GreatQuery(subs, cons, column) ==
    { [ submission_id |-> i,
        problem_id |-> subs[i].problem_id,
        contest_id |-> subs[i].contest_id ] :
      i \in { j \in GreatJoin(subs, cons) : RowNumber(subs, cons, column, j) = 1 } }

\* SELECT COUNT(DISTINCT(parent.problem_id)), user_id
\* FROM parent JOIN submissions ON submissions.id = parent.submission_id GROUP BY user_id
AggregateQuery(parent, subs) ==
    LET joined == { r \in parent : r.submission_id \in DOMAIN subs }
    IN  { [ problem_count |->
                Cardinality({ r.problem_id :
                                r \in { x \in joined :
                                          subs[x.submission_id].user_id = u } }),
            user_id |-> u ] :
          u \in { subs[r.submission_id].user_id : r \in joined } }

\* submissions INNER JOIN contests WHERE start_epoch_second >= 1468670400
\* AND rate_change != '-'
ProblemPointsJoin(subs, cons) ==
    { i \in DOMAIN subs :
        \E c \in cons : /\ c.id = subs[i].contest_id
                        /\ c.start_epoch_second >= Cutoff
                        /\ c.rate_change # "-" }

\* MAX(point) of a group: NULLs are skipped, a group of NULLs gives NULL
MaxPoint(subs, group) ==
    LET vals == { subs[i].point[1] : i \in { j \in group : subs[j].point # NULL } }
    IN  IF vals = {} THEN NULL ELSE Some(MaxOf(vals))

\* SELECT problem_id, MAX(point) ... GROUP BY problem_id
ProblemPointsQuery(subs, cons) ==
    LET joined == ProblemPointsJoin(subs, cons)
    IN  { [ problem_id |-> p,
            point |-> MaxPoint(subs, { i \in joined : subs[i].problem_id = p }) ] :
          p \in { subs[i].problem_id : i \in joined } }

(***************************************************************************)
(* The outcome of a call, kept in last.  issued lists the tables whose     *)
(* batch reached the store during the call, at is the position in issued   *)
(* of the batch whose error the call returned (0 when it returned Ok).     *)
(***************************************************************************)
Ok(op, issued) ==
    [ op |-> op, ok |-> TRUE, err |-> "none", issued |-> issued, at |-> 0 ]

Failed(op, err, issued, at) ==
    [ op |-> op, ok |-> FALSE, err |-> err, issued |-> issued, at |-> at ]

(***************************************************************************)
(* The operations of SqlUpdater for PgConnection.  A batch the store       *)
(* rejects leaves its table as it was: the statements of one batch_execute *)
(* run as one unit.                                                        *)
(***************************************************************************)
update_accepted_count ==
    \E fail \in BOOLEAN :
        /\ accepted_count' =
               IF fail THEN accepted_count ELSE AcceptedCountQuery(submissions)
        /\ last' = IF fail THEN Failed("update_accepted_count", "store", << "accepted_count" >>, 1)
                   ELSE Ok("update_accepted_count", << "accepted_count" >>)
        /\ UNCHANGED << submissions, contests, points, points_pk, solver,
                        rated_point_sum, language_count, first, fastest, shortest,
                        first_submission_count, shortest_submission_count,
                        fastest_submission_count >>

update_problem_solver_count ==
    \E fail \in BOOLEAN :
        /\ solver' = IF fail THEN solver ELSE ProblemSolverCountQuery(submissions)
        /\ last' = IF fail THEN Failed("update_problem_solver_count", "store", << "solver" >>, 1)
                   ELSE Ok("update_problem_solver_count", << "solver" >>)
        /\ UNCHANGED << submissions, contests, points, points_pk, accepted_count,
                        rated_point_sum, language_count, first, fastest, shortest,
                        first_submission_count, shortest_submission_count,
                        fastest_submission_count >>

update_rated_point_sums ==
    \E fail \in BOOLEAN :
        /\ rated_point_sum' =
               IF fail THEN rated_point_sum ELSE RatedPointSumQuery(submissions, points)
        /\ last' = IF fail THEN Failed("update_rated_point_sums", "store", << "rated_point_sum" >>, 1)
                   ELSE Ok("update_rated_point_sums", << "rated_point_sum" >>)
        /\ UNCHANGED << submissions, contests, points, points_pk, accepted_count,
                        solver, language_count, first, fastest, shortest,
                        first_submission_count, shortest_submission_count,
                        fastest_submission_count >>

update_language_count ==
    \E fail \in BOOLEAN :
        /\ language_count' =
               IF fail THEN language_count ELSE LanguageCountQuery(submissions)
        /\ last' = IF fail THEN Failed("update_language_count", "store", << "language_count" >>, 1)
                   ELSE Ok("update_language_count", << "language_count" >>)
        /\ UNCHANGED << submissions, contests, points, points_pk, accepted_count,
                        solver, rated_point_sum, first, fastest, shortest,
                        first_submission_count, shortest_submission_count,
                        fastest_submission_count >>

\* the three DELETE + INSERT pairs are folded into one string and sent as one batch
update_great_submissions ==
    \E fail \in BOOLEAN :
        /\ first' = IF fail THEN first
                    ELSE GreatQuery(submissions, contests, GreatTables[1][2])
        /\ fastest' = IF fail THEN fastest
                      ELSE GreatQuery(submissions, contests, GreatTables[2][2])
        /\ shortest' = IF fail THEN shortest
                       ELSE GreatQuery(submissions, contests, GreatTables[3][2])
        /\ last' = IF fail
                   THEN Failed("update_great_submissions", "store",
                               << "first", "fastest", "shortest" >>, 1)
                   ELSE Ok("update_great_submissions", << "first", "fastest", "shortest" >>)
        /\ UNCHANGED << submissions, contests, points, points_pk, accepted_count,
                        solver, rated_point_sum, language_count,
                        first_submission_count, shortest_submission_count,
                        fastest_submission_count >>

\* a variant of StepDone: the loop goes on after a rejected batch
StepDoneContinue(k, failAt) == k # failAt

\* a variant of StepDone: the three batches in one transaction, rolled back on error
StepDoneTransaction(k, failAt) == failAt = 0

\* step k of the loop runs its batch to completion when the loop reaches it and the
\* store accepts it; failAt is the step the store rejects, 0 when it rejects none
StepDone(k, failAt) == failAt = 0 \/ k < failAt

\* the steps whose batch is sent: `?` returns from the loop at the first error
StepsIssued(failAt) ==
    IF failAt = 0 THEN [ k \in 1 .. 3 |-> AggregateTables[k][1] ]
    ELSE [ k \in 1 .. failAt |-> AggregateTables[k][1] ]

\* a variant of ParentTable: the parents of the last two steps exchanged
ParentTableExchanged(name) ==
    CASE name = "first" -> first
      [] name = "shortest" -> fastest
      [] name = "fastest" -> shortest

ParentTable(name) ==
    CASE name = "first" -> first
      [] name = "shortest" -> shortest
      [] name = "fastest" -> fastest

aggregate_great_submissions ==
    \E failAt \in 0 .. 3 :
        /\ first_submission_count' =
               IF StepDone(1, failAt)
               THEN AggregateQuery(ParentTable(AggregateTables[1][2]), submissions)
               ELSE first_submission_count
        /\ shortest_submission_count' =
               IF StepDone(2, failAt)
               THEN AggregateQuery(ParentTable(AggregateTables[2][2]), submissions)
               ELSE shortest_submission_count
        /\ fastest_submission_count' =
               IF StepDone(3, failAt)
               THEN AggregateQuery(ParentTable(AggregateTables[3][2]), submissions)
               ELSE fastest_submission_count
        /\ last' = IF failAt = 0
                   THEN Ok("aggregate_great_submissions", StepsIssued(failAt))
                   ELSE Failed("aggregate_great_submissions", "store",
                               StepsIssued(failAt), failAt)
        /\ UNCHANGED << submissions, contests, points, points_pk, accepted_count,
                        solver, rated_point_sum, language_count, first, fastest,
                        shortest >>

\* DELETE FROM points WHERE point IS NOT NULL leaves these rows
NullPointRows(pts) ==
    LET keep == { r \in BagToSet(pts) : r.point = NULL }
    IN  [ r \in keep |-> pts[r] ]

\* the table after DELETE + INSERT
ProblemPointsReplaced(pts, subs, cons) ==
    NullPointRows(pts) (+) SetToBag(ProblemPointsQuery(subs, cons))

\* a unique key on problem_id rejects a table holding two rows of one problem
KeyViolated(pts) ==
    \E r \in BagToSet(pts) :
        \/ pts[r] > 1
        \/ \E q \in BagToSet(pts) : q # r /\ q.problem_id = r.problem_id

update_problem_points ==
    \E fail \in BOOLEAN :
        LET new == ProblemPointsReplaced(points, submissions, contests)
            clash == points_pk /\ KeyViolated(new)
        IN  /\ fail \/ clash \/ \A r \in BagToSet(new) : new[r] <= MaxCopies
            /\ points' = IF fail \/ clash THEN points ELSE new
            /\ last' = IF fail
                       THEN Failed("update_problem_points", "store", << "points" >>, 1)
                       ELSE IF clash
                            THEN Failed("update_problem_points", "constraint", << "points" >>, 1)
                            ELSE Ok("update_problem_points", << "points" >>)
            /\ UNCHANGED << submissions, contests, points_pk, accepted_count, solver,
                            rated_point_sum, language_count, first, fastest, shortest,
                            first_submission_count, shortest_submission_count,
                            fastest_submission_count >>

(***************************************************************************)
(* The writers of the source tables, which live outside this file.         *)
(***************************************************************************)
Write == Ok("write", << >>)

InsertSubmission(rows) ==
    /\ Len(submissions) < MaxSubs
    /\ \E s \in rows : submissions' = Append(submissions, s)
    /\ last' = Write
    /\ UNCHANGED << contests, points, points_pk, derived >>

Rejudge(results) ==
    /\ \E i \in DOMAIN submissions : \E res \in results :
           /\ res # submissions[i].result
           /\ submissions' = [ submissions EXCEPT ![i].result = res ]
    /\ last' = Write
    /\ UNCHANGED << contests, points, points_pk, derived >>

(***************************************************************************)
(* The rows the writers draw from.                                         *)
(***************************************************************************)
UserA == << "a" >>

UserB == << "b" >>

UserVjudge7 == << "v", "j", "u", "d", "g", "e", "_" >>

UserVjudgeAbc == << "v", "j", "u", "d", "g", "e", "_", "a", "b", "c" >>

UserVjudgex == << "v", "j", "u", "d", "g", "e", "x" >>

Problems == { "p1", "p2" }

Contests ==
    { [ id |-> "old", start_epoch_second |-> Cutoff - 1, rate_change |-> "All" ],
      [ id |-> "unrated", start_epoch_second |-> Cutoff, rate_change |-> "-" ],
      [ id |-> "rated", start_epoch_second |-> Cutoff, rate_change |-> "All" ] }

LangC == << "C" >>

Row(u, p, c, res, ep, ex, len, lang, pt) ==
    [ user_id |-> u, problem_id |-> p, contest_id |-> c, result |-> res,
      epoch_second |-> ep, execution_time |-> ex, length |-> len,
      language |-> lang, point |-> pt ]

InitWith(pts, pks) ==
    /\ submissions = << >>
    /\ contests = Contests
    /\ points \in pts
    /\ points_pk \in pks
    /\ accepted_count = {}
    /\ solver = {}
    /\ rated_point_sum = {}
    /\ language_count = {}
    /\ first = {}
    /\ fastest = {}
    /\ shortest = {}
    /\ first_submission_count = {}
    /\ shortest_submission_count = {}
    /\ fastest_submission_count = {}
    /\ last = Ok("none", << >>)

(***************************************************************************)
(* accepted_count and solver.                                              *)
(***************************************************************************)
RowsCount ==
    { Row(u, p, "rated", res, Cutoff + 1, 1, 1, LangC, NULL) :
        u \in { UserA, UserB }, p \in Problems, res \in { "AC", "WA" } }

InsertCount == InsertSubmission(RowsCount)

RejudgeCount == Rejudge({ "AC", "WA" })

InitCount == InitWith({ EmptyBag }, { TRUE })

NextCount ==
    \/ InsertCount
    \/ RejudgeCount
    \/ update_accepted_count
    \/ update_problem_solver_count

SpecCount == InitCount /\ [][NextCount]_vars

(***************************************************************************)
(* rated_point_sum.  points starts as update_problem_points leaves it: at  *)
(* most one row per problem.                                               *)
(***************************************************************************)
PointRow(p, pt) == [ problem_id |-> p, point |-> pt ]

RowsRated ==
    { Row(u, p, "rated", res, Cutoff + 1, 1, 1, LangC, NULL) :
        u \in { UserA, UserVjudge7, UserVjudgeAbc, UserVjudgex },
        p \in Problems, res \in { "AC", "WA" } }

InsertRated == InsertSubmission(RowsRated)

InitRated ==
    InitWith({ SetToBag({ PointRow("p1", Some(1)), PointRow("p2", Some(2)) }),
               SetToBag({ PointRow("p1", Some(1)), PointRow("p2", NULL) }) },
             { TRUE })

NextRated ==
    \/ InsertRated
    \/ update_rated_point_sums

SpecRated == InitRated /\ [][NextRated]_vars

(***************************************************************************)
(* points.                                                                 *)
(***************************************************************************)
RowsPoints ==
    { Row(UserA, p, c, res, Cutoff + 1, 1, 1, LangC, pt) :
        p \in Problems, c \in { "old", "unrated", "rated" },
        res \in { "AC", "WA" }, pt \in { NULL, Some(1), Some(2) } }

InsertPoints == InsertSubmission(RowsPoints)

InitPoints == InitWith({ EmptyBag, SetToBag({ PointRow("p1", NULL) }) }, BOOLEAN)

NextPoints ==
    \/ InsertPoints
    \/ update_problem_points

SpecPoints == InitPoints /\ [][NextPoints]_vars

(***************************************************************************)
(* language_count.  A language is <name><digits> (<annotation>).           *)
(***************************************************************************)
RECURSIVE Repeat(_, _)
Repeat(c, n) == IF n = 0 THEN << >> ELSE << c >> \o Repeat(c, n - 1)

CPlusPlus == << "C", "+", "+" >>

Python == << "P", "y", "t", "h", "o", "n" >>

LangParts ==
    { << n, Repeat("6", k), << "x" >> >> :
        n \in { Perl, CPlusPlus }, k \in 0 .. MaxDigits }
    \cup { << Python, << >>, << "3", ".", "8", ".", "2" >> >>,
           << CPlusPlus, << "1", "7" >>, << "G", "C", "C" >> >>,
           << Perl, << >>, << "5", ".", "2", "6", ".", "1" >> >> }

Compose(t) == t[1] \o t[2] \o << " ", "(" >> \o t[3] \o << ")" >>

RowsLang ==
    { Row(u, p, "rated", "AC", Cutoff + 1, 1, 1, Compose(t), NULL) :
        u \in { UserA, UserB }, p \in Problems, t \in LangParts }

InsertLang == InsertSubmission(RowsLang)

InitLang == InitWith({ EmptyBag }, { TRUE })

NextLang ==
    \/ InsertLang
    \/ update_language_count

SpecLang == InitLang /\ [][NextLang]_vars

(***************************************************************************)
(* first, fastest, shortest.  A submission of contest "rated" at Cutoff is *)
(* at the start of its contest; one of contest "old" at Cutoff is after it.*)
(***************************************************************************)
RowsGreat ==
    { Row(UserA, p, ce[1], res, ce[2], m[1], m[2], LangC, NULL) :
        p \in Problems,
        ce \in { << "rated", Cutoff >>, << "rated", Cutoff + 1 >>, << "old", Cutoff >> },
        res \in { "AC", "WA" },
        m \in { << 1, 1 >>, << 1, 2 >>, << 2, 1 >> } }

InsertGreat == InsertSubmission(RowsGreat)

InitGreat == InitWith({ EmptyBag }, { TRUE })

NextGreat ==
    \/ InsertGreat
    \/ update_great_submissions

SpecGreat == InitGreat /\ [][NextGreat]_vars

(***************************************************************************)
(* The per-user counts of great submissions.                               *)
(***************************************************************************)
RowsAggregate ==
    { Row(u, p, "rated", "AC", Cutoff + 1, m[1], m[2], LangC, NULL) :
        u \in { UserA, UserB }, p \in Problems, m \in { << 1, 2 >>, << 2, 1 >> } }

InsertAggregate == InsertSubmission(RowsAggregate)

InitAggregate == InitWith({ EmptyBag }, { TRUE })

NextAggregate ==
    \/ InsertAggregate
    \/ update_great_submissions
    \/ aggregate_great_submissions

SpecAggregate == InitAggregate /\ [][NextAggregate]_vars

(***************************************************************************)
(* What the claims speak of, stated over the tables directly.              *)
(***************************************************************************)
After(op) == last.op = op /\ last.ok

UsersOf(subs) == { subs[i].user_id : i \in DOMAIN subs }

\* the problems u has an accepted submission for
SolvedBy(u) ==
    { p \in Problems :
        \E i \in DOMAIN submissions : /\ submissions[i].user_id = u
                                      /\ submissions[i].problem_id = p
                                      /\ submissions[i].result = "AC" }

HasPrefix(s, pre) == Len(s) >= Len(pre) /\ SubSeq(s, 1, Len(pre)) = pre

VjudgePrefix == << "v", "j", "u", "d", "g", "e", "_" >>

(***************************************************************************)
(* C9: right after a successful update_accepted_count, accepted_count      *)
(* holds exactly one row per user with an accepted submission, its         *)
(* problem_count the number of distinct problems the user has an accepted  *)
(* submission for, and no other row, whatever the table held before.       *)
(***************************************************************************)
C9_AcceptedCountFullReplace ==
    After("update_accepted_count") =>
        /\ \A u \in UsersOf(submissions) :
               { r \in accepted_count : r.user_id = u } =
                   IF SolvedBy(u) = {} THEN {}
                   ELSE { [ user_id |-> u, problem_count |-> Cardinality(SolvedBy(u)) ] }
        /\ \A r \in accepted_count : r.user_id \in UsersOf(submissions)

\* one user has an accepted submission and the only row; another user has a
\* submission, none of them accepted, and no row
C9_Witness ==
    /\ After("update_accepted_count")
    /\ Len(submissions) = 2
    /\ submissions[1].user_id # submissions[2].user_id
    /\ submissions[1].result = "AC"
    /\ submissions[2].result # "AC"
    /\ accepted_count = { [ user_id |-> submissions[1].user_id, problem_count |-> 1 ] }

(***************************************************************************)
(* C1: right after a successful update_rated_point_sums, rated_point_sum   *)
(* holds no row of a user whose user_id begins with "vjudge_".             *)
(***************************************************************************)
C1_NoVjudgeRows ==
    After("update_rated_point_sums") =>
        \A r \in rated_point_sum : ~ HasPrefix(r.user_id, VjudgePrefix)

(***************************************************************************)
(* C7: right after a successful update_rated_point_sums, the point_sum of  *)
(* every row is the sum, over the distinct problems the row's user has an  *)
(* accepted submission for and that have a non-null point, of that point.  *)
(***************************************************************************)
PointOf(p) ==
    (CHOOSE r \in BagToSet(points) : r.problem_id = p /\ r.point # NULL).point[1]

Pointed(u) ==
    { p \in SolvedBy(u) : \E r \in BagToSet(points) : r.problem_id = p /\ r.point # NULL }

RECURSIVE SumOfPoints(_)
SumOfPoints(ps) ==
    IF ps = {} THEN 0
    ELSE LET p == CHOOSE x \in ps : TRUE
         IN  PointOf(p) + SumOfPoints(ps \ {p})

C7_PairCountedOnce ==
    After("update_rated_point_sums") =>
        \A r \in rated_point_sum : r.point_sum = SumOfPoints(Pointed(r.user_id))

\* a user with a row has two accepted submissions on one pointed problem
C7_Witness ==
    /\ After("update_rated_point_sums")
    /\ \E r \in rated_point_sum :
           \E i, j \in DOMAIN submissions :
               /\ i < j
               /\ submissions[i].user_id = r.user_id
               /\ submissions[j].user_id = r.user_id
               /\ submissions[i].result = "AC"
               /\ submissions[j].result = "AC"
               /\ submissions[i].problem_id = submissions[j].problem_id
               /\ submissions[i].problem_id \in Pointed(r.user_id)

(***************************************************************************)
(* C2: a successful update_problem_points inserts, for every problem with  *)
(* an accepted submission in a contest that starts at or after the cutoff  *)
(* and has rate_change other than "-", one row holding the maximum point   *)
(* among those accepted submissions, and no row for any other problem.     *)
(***************************************************************************)
QualifyingAccepted(p) ==
    { i \in DOMAIN submissions :
        /\ submissions[i].problem_id = p
        /\ submissions[i].result = "AC"
        /\ \E c \in contests : /\ c.id = submissions[i].contest_id
                               /\ c.start_epoch_second >= Cutoff
                               /\ c.rate_change # "-" }

MaxAcceptedPoint(p) ==
    LET vals == { submissions[i].point[1] :
                    i \in { j \in QualifyingAccepted(p) : submissions[j].point # NULL } }
    IN  IF vals = {} THEN NULL
        ELSE Some(CHOOSE m \in vals : \A v \in vals : v <= m)

C2_InsertsMaxAcceptedPoint ==
    [][ (last'.op = "update_problem_points" /\ last'.ok) =>
            points' (-) NullPointRows(points) =
                SetToBag({ PointRow(p, MaxAcceptedPoint(p)) :
                             p \in { q \in Problems : QualifyingAccepted(q) # {} } })
      ]_vars

(***************************************************************************)
(* C6: an operation run twice in succession, the source tables unchanged   *)
(* in between, succeeds the second time as it did the first (the store     *)
(* being up) and leaves every table it writes as the first run left it.    *)
(***************************************************************************)
RefreshOperations ==
    { "update_accepted_count", "update_problem_solver_count",
      "update_rated_point_sums", "update_language_count",
      "update_great_submissions", "aggregate_great_submissions",
      "update_problem_points" }

C6_Idempotent ==
    [][ ( /\ last.op \in RefreshOperations
          /\ last.ok
          /\ last'.op = last.op
          /\ last'.err # "store"
          /\ source' = source )
        => (last'.ok /\ points' = points /\ derived' = derived)
      ]_vars

(***************************************************************************)
(* C3: right after a successful update_great_submissions each of first,    *)
(* fastest and shortest holds, for every problem with an eligible          *)
(* submission (accepted, epoch_second strictly after the start of its      *)
(* contest), exactly the row of the eligible submission with the smallest  *)
(* (metric, id), and no row for a problem without an eligible submission.  *)
(***************************************************************************)
Eligible(p) ==
    { i \in DOMAIN submissions :
        /\ submissions[i].problem_id = p
        /\ submissions[i].result = "AC"
        /\ \E c \in contests : /\ c.id = submissions[i].contest_id
                               /\ c.start_epoch_second < submissions[i].epoch_second }

\* the (metric, id) pair of a is not above that of b
PairLeq(a, b) == a[1] < b[1] \/ (a[1] = b[1] /\ a[2] <= b[2])

Best(p, metric) ==
    CHOOSE i \in Eligible(p) :
        \A j \in Eligible(p) :
            PairLeq(<< submissions[i][metric], i >>, << submissions[j][metric], j >>)

GreatRow(i) ==
    [ submission_id |-> i,
      problem_id |-> submissions[i].problem_id,
      contest_id |-> submissions[i].contest_id ]

HoldsBest(table, metric) ==
    \A p \in Problems :
        { r \in table : r.problem_id = p } =
            IF Eligible(p) = {} THEN {} ELSE { GreatRow(Best(p, metric)) }

C3_GreatSubmissionSelected ==
    After("update_great_submissions") =>
        /\ HoldsBest(first, "epoch_second")
        /\ HoldsBest(fastest, "execution_time")
        /\ HoldsBest(shortest, "length")
        /\ \A r \in first \cup fastest \cup shortest : r.problem_id \in Problems

\* two eligible submissions of one problem tie on execution_time and the lower id is
\* in fastest, while shortest holds the other one
C3_Witness ==
    /\ After("update_great_submissions")
    /\ Len(submissions) = 2
    /\ 1 \in Eligible(submissions[1].problem_id)
    /\ 2 \in Eligible(submissions[1].problem_id)
    /\ submissions[1].execution_time = submissions[2].execution_time
    /\ GreatRow(1) \in fastest
    /\ GreatRow(2) \in shortest

(***************************************************************************)
(* The per-user count tables of aggregate_great_submissions.               *)
(***************************************************************************)
\* the problems whose row in parent is a submission of u
OwnedIn(parent, u) ==
    { r.problem_id :
        r \in { x \in parent : /\ x.submission_id \in DOMAIN submissions
                               /\ submissions[x.submission_id].user_id = u } }

\* table holds, per user owning a row of parent, the number of problems owned
CountsOf(table, parent) ==
    /\ \A u \in UsersOf(submissions) :
           { r \in table : r.user_id = u } =
               IF OwnedIn(parent, u) = {} THEN {}
               ELSE { [ problem_count |-> Cardinality(OwnedIn(parent, u)), user_id |-> u ] }
    /\ \A r \in table : r.user_id \in UsersOf(submissions)

AggregateOrder ==
    << "first_submission_count", "shortest_submission_count", "fastest_submission_count" >>

AggregateFailed == last.op = "aggregate_great_submissions" /\ ~ last.ok

(***************************************************************************)
(* C4, as claimed: when a sub-step of aggregate_great_submissions fails,   *)
(* none of the three count tables differs from its contents before the     *)
(* call.                                                                   *)
(***************************************************************************)
C4_FailsAsUnit ==
    [][ AggregateFailed' =>
            UNCHANGED << first_submission_count, shortest_submission_count,
                         fastest_submission_count >>
      ]_vars

(***************************************************************************)
(* C4, amended: when a sub-step of aggregate_great_submissions fails, the  *)
(* table of the failing sub-step keeps its contents of before the call,    *)
(* and every table of an earlier sub-step has been replaced by the counts  *)
(* of its great-submission table: the call can be applied in part.         *)
(***************************************************************************)
C4_FailsInPart ==
    [][ AggregateFailed' =>
            /\ last'.at = 1 => first_submission_count' = first_submission_count
            /\ last'.at = 2 => shortest_submission_count' = shortest_submission_count
            /\ last'.at = 3 => fastest_submission_count' = fastest_submission_count
            /\ last'.at > 1 => CountsOf(first_submission_count', first)
            /\ last'.at > 2 => CountsOf(shortest_submission_count', shortest)
      ]_vars

\* the second sub-step failed: first_submission_count is fresh and not empty,
\* shortest_submission_count is behind shortest
C4_Witness ==
    /\ AggregateFailed
    /\ last.at = 2
    /\ first_submission_count # {}
    /\ CountsOf(first_submission_count, first)
    /\ ~ CountsOf(shortest_submission_count, shortest)

(***************************************************************************)
(* C5: aggregate_great_submissions sends its batches in the order          *)
(* first_submission_count, shortest_submission_count,                      *)
(* fastest_submission_count and stops at the first one the store rejects:  *)
(* the error returned is that batch's, no later batch is sent, and every   *)
(* later table keeps its contents of before the call.                      *)
(***************************************************************************)
C5_ShortCircuit ==
    [][ (last'.op = "aggregate_great_submissions") =>
            IF last'.ok
            THEN last'.issued = AggregateOrder
            ELSE /\ last'.at \in 1 .. 3
                 /\ last'.issued = SubSeq(AggregateOrder, 1, last'.at)
                 /\ last'.at < 2 => shortest_submission_count' = shortest_submission_count
                 /\ last'.at < 3 => fastest_submission_count' = fastest_submission_count
      ]_vars

\* the first sub-step failed, and the two later tables are behind their parents
C5_Witness ==
    /\ AggregateFailed
    /\ last.at = 1
    /\ ~ CountsOf(shortest_submission_count, shortest)
    /\ ~ CountsOf(fastest_submission_count, fastest)

(***************************************************************************)
(* C10: when aggregate_great_submissions succeeds right after a successful *)
(* update_great_submissions, each count table holds, per user, the number  *)
(* of problems whose best eligible submission under the category's metric  *)
(* is that user's, and no row for a user who owns none.                    *)
(***************************************************************************)
BestRows(metric) ==
    { GreatRow(Best(p, metric)) : p \in { q \in Problems : Eligible(q) # {} } }

CountsCurrent ==
    /\ CountsOf(first_submission_count, BestRows("epoch_second"))
    /\ CountsOf(fastest_submission_count, BestRows("execution_time"))
    /\ CountsOf(shortest_submission_count, BestRows("length"))

C10_CountsAfterGreat ==
    [][ ( /\ last.op = "update_great_submissions"
          /\ last.ok
          /\ last'.op = "aggregate_great_submissions"
          /\ last'.ok )
        => CountsCurrent'
      ]_vars

\* the counts are current, and fastest and shortest are owned by different users
C10_Witness ==
    /\ After("aggregate_great_submissions")
    /\ CountsCurrent
    /\ first = BestRows("epoch_second")
    /\ fastest_submission_count # {}
    /\ fastest_submission_count # shortest_submission_count

\* aggregate_great_submissions succeeded on great-submission tables that are behind
\* the submissions: the counts disagree with the current submissions
C10_StaleCounts ==
    /\ After("aggregate_great_submissions")
    /\ first # BestRows("epoch_second")
    /\ CountsOf(first_submission_count, first)
    /\ ~ CountsOf(first_submission_count, BestRows("epoch_second"))

(***************************************************************************)
(* The language normalization of update_language_count.                    *)
(***************************************************************************)
PartsOf(lang) == CHOOSE t \in LangParts : Compose(t) = lang

\* language_count groups the accepted submissions of each user by name(parts):
\* one row per (user, name), counting the distinct problems of the group
GroupedBy(Name(_)) ==
    LET NameOf(i) == Name(PartsOf(submissions[i].language))
        Group(i) == { j \in Accepted(submissions) :
                        /\ submissions[j].user_id = submissions[i].user_id
                        /\ NameOf(j) = NameOf(i) }
    IN  language_count =
            { [ user_id |-> submissions[i].user_id,
                simplified_language |-> NameOf(i),
                problem_count |->
                    Cardinality({ submissions[j].problem_id : j \in Group(i) }) ] :
              i \in Accepted(submissions) }

\* <name><digits> (<annotation>) goes to <name>, the digits kept after "Perl"
ClaimedName(t) == IF t[1] = Perl THEN t[1] \o t[2] ELSE t[1]

\* <name><digits> (<annotation>) goes to <name>, the first digit kept after "Perl"
FirstDigitName(t) ==
    IF t[1] = Perl /\ t[2] # << >> THEN t[1] \o << Head(t[2]) >> ELSE t[1]

(***************************************************************************)
(* C8, as claimed: right after a successful update_language_count, a       *)
(* language <name><digits> (<annotation>) is counted under <name>, under   *)
(* <name><digits> when <name> is "Perl", and the accepted submissions of   *)
(* one user whose languages normalize to the same string share one row.    *)
(***************************************************************************)
C8_DigitsKeptAfterPerl ==
    After("update_language_count") => GroupedBy(ClaimedName)

(***************************************************************************)
(* C8, amended: right after a successful update_language_count, a language *)
(* <name><digits> (<annotation>) is counted under <name>, and under        *)
(* "Perl" followed by the first of the digits alone when <name> is "Perl"  *)
(* ("Perl6 (x)" under "Perl6", "Perl66 (x)" under "Perl6" too); the        *)
(* accepted submissions of one user whose languages normalize to the same  *)
(* string share one row.                                                   *)
(***************************************************************************)
C8_FirstDigitKeptAfterPerl ==
    After("update_language_count") => GroupedBy(FirstDigitName)

\* one user's "Perl6 (x)" and "C++17 (GCC)" on two problems, counted under "Perl6"
\* and "C++"
C8_Witness ==
    /\ After("update_language_count")
    /\ Len(submissions) = 2
    /\ submissions[1].user_id = submissions[2].user_id
    /\ submissions[1].language = Compose(<< Perl, << "6" >>, << "x" >> >>)
    /\ submissions[2].language = Compose(<< CPlusPlus, << "1", "7" >>, << "G", "C", "C" >> >>)
    /\ { r.simplified_language : r \in language_count } = { Perl \o << "6" >>, CPlusPlus }

====
